---- MODULE Spec2Model ----
(***************************************************************************)
(* NewsRobot: MainScrapper (src/scrapper/scrapper.py).                     *)
(*                                                                         *)
(* Texts are sequences of word tokens (the words of the rendered text,     *)
(* separated by blanks); the truncation marker '...' is a token of its     *)
(* own.  A regular expression is matched token by token, leftmost match    *)
(* first, as re.search does.                                               *)
(***************************************************************************)
EXTENDS Integers, Sequences, FiniteSets, TLC

VARIABLES
    pc,             \* position of the run inside scrape()
    current_month,  \* dt.now().month read by __init__
    number_of_months,\* constructor argument
    month_limit,    \* self.month_limit
    browser_open,   \* a browser session of self.browser is open
    raised_in,      \* the step of scrape() whose exception was caught
    news_list,      \* the elements returned by get_news_list_by_date
    news_payload,   \* the list returned by process_news_payload
    payload_idx,    \* the loop index i at which each record was appended
    img_dir,        \* the files of output/imgs
    file,           \* output/output.xlsx on disk: the saved sheet
    file_exists,    \* os.path.exists('output/output.xlsx')
    workbook,       \* the sheet of the workbook held by Files()
    workbook_open,  \* Files() holds a workbook
    date_string,    \* argument of convert_string_to_datetime
    parsed,         \* its return value
    writes          \* number of calls of save_payload_to_excel on the file

vars == <<pc, current_month, number_of_months, month_limit, browser_open,
          raised_in, news_list, news_payload, payload_idx, img_dir, file,
          file_exists, workbook, workbook_open, date_string, parsed, writes>>

----------------------------------------------------------------------------
(* Bounds of the model *)

MaxHandles == 3
MaxWrites == 2
MaxRecords == 2

----------------------------------------------------------------------------
(* Python helpers *)

\* Python's None, as a value of the shape of a date.
None == [day |-> 0, month |-> 0, year |-> 0]

Max(a, b) == IF a >= b THEN a ELSE b

\* seq[i] of a Python list: a negative index counts from the end.
InRangeNoWrap(seq, i) == i >= 0 /\ i < Len(seq)
InRange(seq, i) == IF i >= 0 THEN i < Len(seq) ELSE 0 - i <= Len(seq)
PyIndex(seq, i) == IF i >= 0 THEN seq[i + 1] ELSE seq[Len(seq) + i + 1]

\* str.split('...'): the segments between the markers, at least one.
Ellipsis == "..."
RECURSIVE Split(_)
Split(s) ==
    IF s = <<>> THEN << <<>> >>
    ELSE LET rest == Split(Tail(s))
         IN  IF Head(s) = Ellipsis
                THEN << <<>> >> \o rest
                ELSE << <<Head(s)>> \o Head(rest) >> \o Tail(rest)

\* str.count(word) on a text of word tokens.
RECURSIVE Count(_, _)
Count(s, w) ==
    IF s = <<>> THEN 0
    ELSE (IF Head(s) = w THEN 1 ELSE 0) + Count(Tail(s), w)

----------------------------------------------------------------------------
(* contains_money *)

DollarAmounts == {"$5", "$2,500.00"}
Integers3 == {"5", "1,000"}

contains_money(text) ==
    \/ \E p \in 1..Len(text) : text[p] \in DollarAmounts
    \/ \E p \in 1..(Len(text) - 1) :
          text[p] \in Integers3 /\ text[p + 1] = "dollars"
    \/ \E p \in 1..(Len(text) - 1) :
          text[p] \in Integers3 /\ text[p + 1] = "USD"

----------------------------------------------------------------------------
(* convert_string_to_datetime *)

\* Tokens matched by \d{1,2}, \w{3} and \d{4}.
DayValue == ("5" :> 5) @@ ("05" :> 5) @@ ("31" :> 31)
MonthValue == ("Jan" :> 1) @@ ("Feb" :> 2) @@ ("Mar" :> 3) @@ ("Dec" :> 12)
YearValue == ("2023" :> 2023) @@ ("2024" :> 2024)
Digits12 == DOMAIN DayValue
Word3 == DOMAIN MonthValue \cup {"Foo"}
Digits4 == DOMAIN YearValue

date_patterns == << <<"Published", "On">>, <<"Last", "update">> >>

\* The pattern matches at position p of the text.
MatchAt(pattern, s, p) ==
    /\ p + 4 <= Len(s)
    /\ s[p] = pattern[1]
    /\ s[p + 1] = pattern[2]
    /\ s[p + 2] \in Digits12
    /\ s[p + 3] \in Word3
    /\ s[p + 4] \in Digits4

Matches(pattern, s) == \E p \in 1..Len(s) : MatchAt(pattern, s, p)

\* re.search(...).group(1): the date tokens of the leftmost match.
Group1(pattern, s) ==
    LET p == CHOOSE q \in 1..Len(s) :
                 /\ MatchAt(pattern, s, q)
                 /\ \A r \in 1..(q - 1) : ~MatchAt(pattern, s, r)
    IN  <<s[p + 2], s[p + 3], s[p + 4]>>

IsLeap(y) == (y % 4 = 0 /\ y % 100 # 0) \/ y % 400 = 0
DaysIn(m, y) ==
    IF m = 2 THEN (IF IsLeap(y) THEN 29 ELSE 28)
    ELSE IF m \in {4, 6, 9, 11} THEN 30 ELSE 31

\* dt.strptime(g, '%d %b %Y') raises ValueError.
StrptimeFails(g) ==
    \/ g[2] \notin DOMAIN MonthValue
    \/ DayValue[g[1]] < 1
    \/ DayValue[g[1]] > DaysIn(MonthValue[g[2]], YearValue[g[3]])

strptime(g) ==
    [day |-> DayValue[g[1]], month |-> MonthValue[g[2]], year |-> YearValue[g[3]]]

\* The loop over date_patterns from pattern k on.  The return None of line
\* 314 is in the body of the loop: the iteration that does not return a
\* date ends the function.
ConvertFrom(s, k) ==
    IF k > Len(date_patterns) THEN None
    ELSE IF Matches(date_patterns[k], s)
              /\ ~StrptimeFails(Group1(date_patterns[k], s))
         THEN strptime(Group1(date_patterns[k], s))
         ELSE None

convert_string_to_datetime(s) ==
    IF s # <<>> THEN ConvertFrom(s, 1) ELSE None

\* date.strftime('%d %b %Y')
DayText(d) == IF d < 10 THEN "0" \o ToString(d) ELSE ToString(d)
MonthText(m) == CHOOSE t \in DOMAIN MonthValue : MonthValue[t] = m
strftime(d) == <<DayText(d.day), MonthText(d.month), ToString(d.year)>>

----------------------------------------------------------------------------
(* The rendered articles *)

search_phrase == "Gaza"
Unavailable == "Unavailable"

\* An article element of the result page: the child element that cannot be
\* found (if any), the texts of its title, body and footer, and what the
\* image server answers to a request of its image.
Handle(m, b, f, r) ==
    [missing |-> m, title |-> <<"Gaza", "aid", "$5">>, body |-> b,
     footer |-> f, resp |-> r]

BodyOneMarker == <<"Gaza", "talks", "...">>
BodyNoMarker == <<"Gaza", "talks">>
BodyTwoMarkers == <<"more", "...", "5", "USD", "...">>

FooterMar == <<"Published", "On", "05", "Mar", "2024">>
FooterJan == <<"Published", "On", "5", "Jan", "2024">>
FooterDec == <<"Published", "On", "31", "Dec", "2023">>
FooterLastUpdate == <<"Last", "update", "31", "Dec", "2023">>
FooterBadDate == <<"Published", "On", "31", "Feb", "2024">>
FooterBlank == <<>>

Handles ==
    {Handle("none", BodyOneMarker, f, "200") : f \in {FooterMar, FooterJan}}
    \cup {Handle("none", BodyTwoMarkers, FooterDec, "200")}
    \cup {Handle("none", BodyOneMarker, FooterMar, r) : r \in {"404", "timeout"}}
    \cup {Handle(m, BodyOneMarker, FooterJan, "200") :
        m \in {"title", "footer"}}
    \cup {Handle("image", BodyOneMarker, FooterMar, "200")}
    \cup {Handle("none", BodyNoMarker, FooterMar, "200")}
    \cup {Handle("none", BodyOneMarker, f, "200") :
        f \in {FooterLastUpdate, FooterBadDate, FooterBlank}}

RECURSIVE SeqsUpTo(_, _)
SeqsUpTo(S, n) ==
    IF n = 0 THEN {<<>>}
    ELSE LET shorter == SeqsUpTo(S, n - 1)
         IN  shorter \cup {Append(l, x) : l \in shorter, x \in S}

NewsLists == SeqsUpTo(Handles, MaxHandles)

----------------------------------------------------------------------------
(* get_news_image *)

ImgFileName(idx) == "img_" \o ToString(idx) \o ".png"

\* requests.get(img_src, timeout=1.5) raises (requests.Timeout).
GetRaises(h) == h.resp = "timeout"

get_news_image_onebased(h, idx) ==
    IF h.resp = "200" THEN ImgFileName(idx + 1) ELSE Unavailable

\* The value returned when requests.get returns a response.
get_news_image(h, idx) ==
    IF h.resp = "200" THEN ImgFileName(idx) ELSE Unavailable

\* The files of output/imgs after the call.
ImgDirAfter(dir, h, idx) ==
    IF ~GetRaises(h) /\ h.resp = "200" THEN dir \cup {ImgFileName(idx)} ELSE dir

----------------------------------------------------------------------------
(* process_news_payload *)

Keys == <<"title", "date", "description", "search_term_occurrence",
          "contains_money", "img_file_name">>

\* description.split('...') and the index len(description) - 2.
Segments(h) == Split(h.body)
Description(h) == PyIndex(Segments(h), Len(Segments(h)) - 2)

\* An exception is raised in the try block before the date is tested.
RaisesBeforeDate(h) ==
    \/ h.missing = "title"
    \/ h.missing = "body"
    \/ ~InRange(Segments(h), Len(Segments(h)) - 2)
    \/ h.missing = "footer"

\* An exception is raised while the record is built.
RaisesInRecord(h) == h.missing = "image" \/ GetRaises(h)

NewsRecord(h, idx) ==
    [title |-> h.title,
     date |-> strftime(convert_string_to_datetime(h.footer)),
     description |-> Description(h),
     search_term_occurrence |->
         Count(h.title, search_phrase) + Count(Description(h), search_phrase),
     contains_money |-> contains_money(h.title) \/ contains_money(Description(h)),
     img_file_name |-> get_news_image(h, idx)]

IterationNoBreak(h, limit) ==
    IF RaisesBeforeDate(h) THEN "raise"
    ELSE IF convert_string_to_datetime(h.footer) = None THEN "nodate"
    ELSE IF convert_string_to_datetime(h.footer).month >= limit
         THEN (IF RaisesInRecord(h) THEN "raise" ELSE "append")
         ELSE "nodate"

\* What one iteration of the loop does with element h:
\* "raise" (caught and logged), "nodate", "append" or "break".
Iteration(h, limit) ==
    IF RaisesBeforeDate(h) THEN "raise"
    ELSE IF convert_string_to_datetime(h.footer) = None THEN "nodate"
    ELSE IF convert_string_to_datetime(h.footer).month >= limit
         THEN (IF RaisesInRecord(h) THEN "raise" ELSE "append")
         ELSE "break"

\* The loop from 0-based index idx on; acc is the state of the loop:
\* _news_payload, the indices of its records and the image directory.
RECURSIVE ProcessFrom(_, _, _, _)
ProcessFrom(list, idx, limit, acc) ==
    IF idx >= Len(list) THEN acc
    ELSE LET h == list[idx + 1]
             what == Iteration(h, limit)
         IN  IF what = "break" THEN acc
             ELSE IF what = "append"
                  THEN ProcessFrom(list, idx + 1, limit,
                          [payload |-> Append(acc.payload, NewsRecord(h, idx)),
                           idx |-> Append(acc.idx, idx),
                           dir |-> ImgDirAfter(acc.dir, h, idx)])
                  ELSE ProcessFrom(list, idx + 1, limit, acc)

process_news_payload(list, limit, dir) ==
    ProcessFrom(list, 0, limit, [payload |-> <<>>, idx |-> <<>>, dir |-> dir])

----------------------------------------------------------------------------
(* save_payload_to_excel *)

\* A sheet maps the cells <<row, column>> that hold a value to the value.
EmptySheet == <<>>

\* The two loops of set_cell_value: the keys of the first record in row 1,
\* the values of each record in the rows from 2 on.
HeaderCells(payload) ==
    [cell \in {<<1, c>> : c \in 1..Len(Keys)} |-> Keys[cell[2]]]
DataCells(payload) ==
    [cell \in {<<r + 1, c>> : r \in 1..Len(payload), c \in 1..Len(Keys)} |->
        payload[cell[1] - 1][Keys[cell[2]]]]
SetCells(sheet, payload) == DataCells(payload) @@ HeaderCells(payload) @@ sheet

OpenedFresh(sheet, exists) == EmptySheet

\* create_workbook or open_workbook
Opened(sheet, exists) == IF exists THEN sheet ELSE EmptySheet

SaveRaisesOnlyIo(payload, io) == io = "oserror"

\* payload[0] raises IndexError, or save_workbook raises (io = "oserror").
SaveRaises(payload, io) == payload = <<>> \/ io = "oserror"

\* The state of the file and of the workbook when the call is left.
save_payload_to_excel(payload, sheet, exists, io) ==
    IF payload = <<>>
    THEN [file |-> sheet, file_exists |-> exists,
          workbook |-> Opened(sheet, exists), workbook_open |-> TRUE]
    ELSE IF io = "oserror"
    THEN [file |-> sheet, file_exists |-> exists,
          workbook |-> SetCells(Opened(sheet, exists), payload),
          workbook_open |-> TRUE]
    ELSE [file |-> SetCells(Opened(sheet, exists), payload), file_exists |-> TRUE,
          workbook |-> EmptySheet, workbook_open |-> FALSE]

SaveOutcomes == {"ok", "oserror"}

----------------------------------------------------------------------------
(* __init__ and scrape *)

CurrentMonths == {3}
NumbersOfMonths == {0, 1, 5}

MonthLimitNoFloor(month, months) == month - (months - 1)

MonthLimit(month, months) == month - Max(months - 1, 0)

Idle ==
    /\ date_string = <<>>
    /\ parsed = None
    /\ writes = 0

Init ==
    /\ pc = "search"
    /\ current_month \in CurrentMonths
    /\ number_of_months \in NumbersOfMonths
    /\ month_limit = MonthLimit(current_month, number_of_months)
    /\ browser_open = TRUE
    /\ raised_in = "none"
    /\ news_list = <<>>
    /\ news_payload = <<>>
    /\ payload_idx = <<>>
    /\ img_dir = {}
    /\ file_exists = FALSE
    /\ file = EmptySheet
    /\ workbook = EmptySheet
    /\ workbook_open = FALSE
    /\ Idle

\* An exception leaves the try block of scrape.
Raise(step) ==
    /\ raised_in' = step
    /\ pc' = "except"

SearchNews ==
    /\ pc = "search"
    /\ \/ pc' = "wait" /\ UNCHANGED raised_in
       \/ Raise("search")
    /\ UNCHANGED <<current_month, number_of_months, month_limit, browser_open,
                   news_list, news_payload, payload_idx, img_dir, file,
                   file_exists, workbook, workbook_open, date_string, parsed,
                   writes>>

WaitForSortOption ==
    /\ pc = "wait"
    /\ \/ pc' = "collect" /\ UNCHANGED raised_in
       \/ Raise("wait")
    /\ UNCHANGED <<current_month, number_of_months, month_limit, browser_open,
                   news_list, news_payload, payload_idx, img_dir, file,
                   file_exists, workbook, workbook_open, date_string, parsed,
                   writes>>

GetNewsListByDate ==
    /\ pc = "collect"
    /\ \/ /\ news_list' \in NewsLists
          /\ pc' = "process"
          /\ UNCHANGED raised_in
       \/ Raise("collect") /\ UNCHANGED news_list
    /\ UNCHANGED <<current_month, number_of_months, month_limit, browser_open,
                   news_payload, payload_idx, img_dir, file, file_exists,
                   workbook, workbook_open, date_string, parsed, writes>>

ProcessNewsPayload ==
    /\ pc = "process"
    /\ LET out == process_news_payload(news_list, month_limit, img_dir)
       IN  /\ news_payload' = out.payload
           /\ payload_idx' = out.idx
           /\ img_dir' = out.dir
    /\ pc' = "save"
    /\ UNCHANGED <<current_month, number_of_months, month_limit, browser_open,
                   raised_in, news_list, file, file_exists, workbook,
                   workbook_open, date_string, parsed, writes>>

SavePayloadToExcel ==
    /\ pc = "save"
    /\ \E io \in SaveOutcomes :
          LET out == save_payload_to_excel(news_payload, file, file_exists, io)
          IN  /\ file' = out.file
              /\ file_exists' = out.file_exists
              /\ workbook' = out.workbook
              /\ workbook_open' = out.workbook_open
              /\ IF SaveRaises(news_payload, io)
                    THEN Raise("save")
                    ELSE pc' = "finally" /\ UNCHANGED raised_in
    /\ UNCHANGED <<current_month, number_of_months, month_limit, browser_open,
                   news_list, news_payload, payload_idx, img_dir, date_string,
                   parsed, writes>>

AfterExceptSwallowed == "finally"

\* The position after the except clause: raise Exception from error.
AfterExcept == "finally_raise"

Except ==
    /\ pc = "except"
    /\ browser_open' = FALSE
    /\ pc' = AfterExcept
    /\ UNCHANGED <<current_month, number_of_months, month_limit, raised_in,
                   news_list, news_payload, payload_idx, img_dir, file,
                   file_exists, workbook, workbook_open, date_string, parsed,
                   writes>>

Finally ==
    /\ pc \in {"finally", "finally_raise"}
    /\ browser_open' = FALSE
    /\ pc' = IF pc = "finally_raise" THEN "raised" ELSE "returned"
    /\ UNCHANGED <<current_month, number_of_months, month_limit, raised_in,
                   news_list, news_payload, payload_idx, img_dir, file,
                   file_exists, workbook, workbook_open, date_string, parsed,
                   writes>>

Next ==
    \/ SearchNews
    \/ WaitForSortOption
    \/ GetNewsListByDate
    \/ ProcessNewsPayload
    \/ SavePayloadToExcel
    \/ Except
    \/ Finally

Spec == Init /\ [][Next]_vars

----------------------------------------------------------------------------
(* convert_string_to_datetime on its own *)

DatedTexts ==
    {<<kw[1], kw[2], d, m, y>> :
        kw \in {date_patterns[1], date_patterns[2]},
        d \in Digits12, m \in Word3, y \in Digits4}

FooterTexts ==
    DatedTexts
    \cup {<<"Published", "On", d, m, "2024">> \o FooterLastUpdate :
            d \in Digits12, m \in Word3}
    \cup {FooterLastUpdate \o FooterMar, <<"By", "AFP">> \o FooterLastUpdate,
          <<"By", "AFP">> \o FooterJan \o <<"Doha">>}
    \cup {<<>>, <<"By", "AFP">>, <<"Published", "On", "Monday">>,
          <<"Last", "update">>}

InitDate ==
    /\ pc = "convert"
    /\ date_string \in FooterTexts
    /\ parsed = None
    /\ current_month = 3
    /\ number_of_months = 0
    /\ month_limit = MonthLimit(current_month, number_of_months)
    /\ browser_open = FALSE
    /\ raised_in = "none"
    /\ news_list = <<>>
    /\ news_payload = <<>>
    /\ payload_idx = <<>>
    /\ img_dir = {}
    /\ file_exists = FALSE
    /\ file = EmptySheet
    /\ workbook = EmptySheet
    /\ workbook_open = FALSE
    /\ writes = 0

ConvertStringToDatetime ==
    /\ pc = "convert"
    /\ parsed' = convert_string_to_datetime(date_string)
    /\ pc' = "converted"
    /\ UNCHANGED <<current_month, number_of_months, month_limit, browser_open,
                   raised_in, news_list, news_payload, payload_idx, img_dir,
                   file, file_exists, workbook, workbook_open, date_string,
                   writes>>

NextDate == ConvertStringToDatetime

SpecDate == InitDate /\ [][NextDate]_vars

----------------------------------------------------------------------------
(* save_payload_to_excel called again and again on the same file *)

SampleRecords ==
    {NewsRecord(Handle("none", BodyOneMarker, FooterMar, "200"), 0),
     NewsRecord(Handle("none", BodyTwoMarkers, FooterDec, "404"), 1),
     NewsRecord(Handle("none", BodyNoMarker, FooterJan, "200"), 2)}

Payloads == SeqsUpTo(SampleRecords, MaxRecords)

InitExcel ==
    /\ pc = "excel"
    /\ writes = 0
    /\ file_exists = FALSE
    /\ file = EmptySheet
    /\ workbook = EmptySheet
    /\ workbook_open = FALSE
    /\ news_payload = <<>>
    /\ date_string = <<>>
    /\ parsed = None
    /\ current_month = 3
    /\ number_of_months = 0
    /\ month_limit = MonthLimit(current_month, number_of_months)
    /\ browser_open = FALSE
    /\ raised_in = "none"
    /\ news_list = <<>>
    /\ payload_idx = <<>>
    /\ img_dir = {}

SaveCall ==
    /\ pc = "excel"
    /\ writes < MaxWrites
    /\ \E payload \in Payloads, io \in SaveOutcomes :
          LET out == save_payload_to_excel(payload, file, file_exists, io)
          IN  /\ news_payload' = payload
              /\ file' = out.file
              /\ file_exists' = out.file_exists
              /\ workbook' = out.workbook
              /\ workbook_open' = out.workbook_open
              /\ raised_in' = IF SaveRaises(payload, io) THEN "save" ELSE "none"
    /\ writes' = writes + 1
    /\ UNCHANGED <<pc, current_month, number_of_months, month_limit,
                   browser_open, news_list, payload_idx, img_dir, date_string,
                   parsed>>

NextExcel == SaveCall

SpecExcel == InitExcel /\ [][NextExcel]_vars

----------------------------------------------------------------------------
(* Properties *)

\* process_news_payload has just returned: news_payload is its result for
\* news_list.
Processed == pc = "save"

\* save_payload_to_excel has been called in this run.
SaveCalled ==
    \/ pc \in {"finally", "returned"}
    \/ pc \in {"except", "finally_raise", "raised"} /\ raised_in = "save"

\* scrape() has been left.
Exited == pc \in {"returned", "raised"}

FooterDate(h) == convert_string_to_datetime(h.footer)

\* Processing the handle raises: an element of it is not found, or the
\* request of its image times out.
Malformed(h) == h.missing # "none" \/ h.resp = "timeout"

\* The handle qualifies: well formed, dated, month at or above the limit.
Qualifies(h) ==
    /\ ~Malformed(h)
    /\ FooterDate(h) # None
    /\ FooterDate(h).month >= month_limit

\* The footer of the handle holds a date of a month below the limit.
FooterBelowLimit(h) ==
    /\ h.missing # "footer"
    /\ FooterDate(h) # None
    /\ FooterDate(h).month < month_limit

\* ... and title, description and footer of the handle are read without
\* error, so that the date is tested.
ReadBelowLimit(h) ==
    /\ h.missing \notin {"title", "body"}
    /\ FooterBelowLimit(h)

\* 1-based position of the first handle of news_list satisfying Stop, or
\* Len(news_list) + 1.
FirstStop(Stop(_)) ==
    CHOOSE i \in 1..(Len(news_list) + 1) :
        /\ i <= Len(news_list) => Stop(news_list[i])
        /\ \A j \in 1..(i - 1) : ~Stop(news_list[j])

\* The positions before `stop` of the handles that qualify, ascending.
QualifyingBefore(stop) ==
    SelectSeq([i \in 1..(stop - 1) |-> i], LAMBDA i : Qualifies(news_list[i]))

PayloadIs(positions) ==
    /\ payload_idx = [k \in 1..Len(positions) |-> positions[k] - 1]
    /\ news_payload =
          [k \in 1..Len(positions) |->
              NewsRecord(news_list[positions[k]], positions[k] - 1)]

C2_BrowserClosedAndFailureSeen ==
    /\ Exited => ~browser_open
    /\ pc = "returned" => raised_in = "none"
    /\ (Exited /\ raised_in # "none") => pc = "raised"

C2_Witness == pc = "raised" /\ raised_in = "collect" /\ ~browser_open

LastUpdateOnly(s) ==
    /\ ~Matches(date_patterns[1], s)
    /\ Matches(date_patterns[2], s)
    /\ ~StrptimeFails(Group1(date_patterns[2], s))

PatternFree(s) ==
    ~Matches(date_patterns[1], s) /\ ~Matches(date_patterns[2], s)

\* C3: a text with no 'Published On' match and a valid 'Last update' date
\* converts to that date; a blank or pattern-free text converts to None.
C3_LastUpdateFallback ==
    pc = "converted" =>
        /\ LastUpdateOnly(date_string) =>
              parsed = strptime(Group1(date_patterns[2], date_string))
        /\ PatternFree(date_string) => parsed = None

\* The handle at 1-based position i, before the position `stop` where the
\* pass ends, reaches the date test and passes it, and its image element is
\* found.
PassesCutoff(i, stop) ==
    /\ i < stop
    /\ news_list[i].missing = "none"
    /\ FooterDate(news_list[i]) # None
    /\ FooterDate(news_list[i]).month >= month_limit

HasRecord(i) == \E k \in 1..Len(payload_idx) : payload_idx[k] = i - 1
RecordOf(i) ==
    news_payload[CHOOSE k \in 1..Len(payload_idx) : payload_idx[k] = i - 1]

\* C4: a handle that passes the cutoff and whose image request fails, by a
\* status other than success or by a timeout, has a record, and the
\* img_file_name of the record is 'Unavailable'.
C4_FailedImageKeepsRecord ==
    Processed =>
        LET stop == FirstStop(ReadBelowLimit)
        IN  \A i \in 1..Len(news_list) :
                (PassesCutoff(i, stop) /\ news_list[i].resp # "200") =>
                    HasRecord(i) /\ RecordOf(i).img_file_name = Unavailable

\* C5: a run whose extraction accepts no article is left by an exception
\* raised by save_payload_to_excel, and no row is written to the file.
C5_EmptyPayloadRaises ==
    (SaveCalled /\ news_payload = <<>>) =>
        /\ raised_in = "save"
        /\ pc \in {"except", "finally_raise", "raised"}
        /\ ~file_exists
        /\ file = EmptySheet

C5_Witness ==
    /\ pc = "raised"
    /\ raised_in = "save"
    /\ news_payload = <<>>
    /\ Len(news_list) = 2
    /\ ReadBelowLimit(news_list[1])
    /\ Qualifies(news_list[2])
    /\ ~file_exists

NoMarker(h) == Len(Split(h.body)) < 2

\* C6 as stated: a handle whose description holds no '...' has no record.
C6_NoMarkerSkipped ==
    Processed =>
        \A i \in 1..Len(news_list) :
            (news_list[i].missing # "body" /\ NoMarker(news_list[i])) =>
                ~HasRecord(i)

\* C6 amended: for a description without '...' the index len - 2 = -1
\* selects the only segment and nothing fails: the handle, when it passes
\* the cutoff and its image request returns, has a record whose description
\* is the whole text; the handles after it are still processed.
C6_NoMarkerKeepsWholeText ==
    Processed =>
        LET stop == FirstStop(ReadBelowLimit)
        IN  \A i \in 1..Len(news_list) :
                (NoMarker(news_list[i]) /\ PassesCutoff(i, stop)
                    /\ news_list[i].resp # "timeout") =>
                    HasRecord(i) /\ RecordOf(i).description = news_list[i].body

C6_Witness ==
    /\ Processed
    /\ Len(news_list) = 2
    /\ NoMarker(news_list[1])
    /\ PassesCutoff(1, 2)
    /\ payload_idx = <<0, 1>>
    /\ news_payload[1].description = BodyNoMarker

\* C7: a call that saves N >= 1 records sets row 1 to the field names and
\* rows 2..N+1 to the records, in order, and leaves every other cell of the
\* file as it was.
C7_WriteFrame ==
    [][(writes' = writes + 1 /\ raised_in' = "none") =>
          LET n == Len(news_payload')
          IN  /\ n >= 1
              /\ \A c \in 1..Len(Keys) : file'[<<1, c>>] = Keys[c]
              /\ \A r \in 1..n : \A c \in 1..Len(Keys) :
                    file'[<<r + 1, c>>] = news_payload'[r][Keys[c]]
              /\ \A cell \in DOMAIN file' \cup DOMAIN file :
                    (cell[1] > n + 1 \/ cell[2] > Len(Keys)) =>
                        /\ cell \in DOMAIN file
                        /\ cell \in DOMAIN file'
                        /\ file'[cell] = file[cell]]_vars

\* Two records were saved, then one: row 3 still holds the second record
\* of the earlier call.
C7_Witness ==
    /\ writes = 2
    /\ raised_in = "none"
    /\ Len(news_payload) = 1
    /\ <<3, 1>> \in DOMAIN file
    /\ \E rec \in SampleRecords :
          /\ rec # news_payload[1]
          /\ \A c \in 1..Len(Keys) : file[<<3, c>>] = rec[Keys[c]]

\* C8: month_limit = current_month - max(number_of_months - 1, 0), the same
\* for 0 and 1 months; a well-formed dated handle that the pass reaches (no
\* handle before it was tested and found below the limit) is
\* accepted iff its month number is at or above month_limit, whatever its
\* year; with month_limit <= 0 every such handle is accepted.
C8_MonthOfYearCutoff ==
    /\ month_limit = current_month -
          (IF number_of_months - 1 > 0 THEN number_of_months - 1 ELSE 0)
    /\ number_of_months \in {0, 1} => month_limit = current_month
    /\ Processed =>
          LET stop == FirstStop(ReadBelowLimit)
          IN  \A i \in 1..Len(news_list) :
                  (i <= stop /\ ~Malformed(news_list[i])
                      /\ FooterDate(news_list[i]) # None) =>
                      /\ HasRecord(i) <=>
                            MonthValue[news_list[i].footer[4]] >= month_limit
                      /\ number_of_months - 1 >= current_month => HasRecord(i)

\* With the limit at March, an article of December 2023 is accepted and
\* the pass stops at one of January 2024.
C8_Witness ==
    /\ Processed
    /\ month_limit = 3
    /\ Len(news_list) = 3
    /\ news_list[1].footer = FooterDec
    /\ news_list[2].footer = FooterJan
    /\ news_list[3].footer = FooterMar
    /\ payload_idx = <<0>>
    /\ news_payload[1].date = <<"31", "Dec", "2023">>

\* C9: scrape() is never left with the workbook still open.
C9_WorkbookReleased == Exited => ~workbook_open

\* C10: a record whose img_file_name is not 'Unavailable' is named
\* 'img_<i>.png', i the 0-based position of its handle in news_list, and the
\* file is in output/imgs; the positions, hence the names, of the records
\* increase strictly in output order.
C10_ImageNamedByHandlePosition ==
    Processed =>
        \A k \in 1..Len(news_payload) :
            /\ Len(payload_idx) = Len(news_payload)
            /\ payload_idx[k] \in 0..(Len(news_list) - 1)
            /\ news_payload[k].date =
                  strftime(FooterDate(news_list[payload_idx[k] + 1]))
            /\ news_payload[k].img_file_name # Unavailable =>
                  /\ news_payload[k].img_file_name =
                        "img_" \o ToString(payload_idx[k]) \o ".png"
                  /\ news_payload[k].img_file_name \in img_dir
            /\ \A j \in 1..(k - 1) :
                  /\ payload_idx[j] < payload_idx[k]
                  /\ news_payload[j].img_file_name # Unavailable =>
                        news_payload[j].img_file_name #
                            news_payload[k].img_file_name

\* The first handle is skipped: the names start at img_1.png.
C10_Witness ==
    /\ Processed
    /\ Len(news_list) = 3
    /\ Len(news_payload) = 2
    /\ news_payload[1].img_file_name = "img_1.png"
    /\ news_payload[2].img_file_name = "img_2.png"

====
